---- MODULE Spec2Model ----
(***************************************************************************)
(* A model of src/script.py, the Norwegian Cruise Line price watcher:      *)
(* fetch_html, parse_price (three extraction strategies), load_last,       *)
(* save_last, send_telegram and the monitoring loop of run().              *)
(*                                                                         *)
(* Python floats are records [k, c]: k = "float" with c the amount in      *)
(* cents, k = "nan" for NaN, k = "int" for a Python int (json.load of an   *)
(* integer literal) and k = "None" for None.                               *)
(***************************************************************************)
EXTENDS Integers, Sequences, FiniteSets, TLC

VARIABLES
    pc,      \* position of the process in run() / parse_price()
    env,     \* the environment: which credential variables are set, and
             \* the text of CHECK_INTERVAL_MIN
    interval,\* the local variable interval of run(), in minutes
    html,    \* the document held by the local variable html
    base,    \* the local variable base (parse_price: base_price)
    taxes,   \* the local variable taxes
    store,   \* the content of the snapshot file LAST_PRICE_FILE
    store0,  \* history: the content of the file when the cycle began
    ev,      \* history: what happened in the current cycle
    prev     \* history: how the previous cycle ended

vars == <<pc, env, interval, html, base, taxes, store, store0, ev, prev>>

(***************************************************************************)
(* Bounds.                                                                 *)
(***************************************************************************)
MaxParts == 3   \* a document is a sequence of at most MaxParts fragments

(***************************************************************************)
(* Python values.                                                          *)
(***************************************************************************)
None == [k |-> "None", c |-> 0]
NaN == [k |-> "nan", c |-> 0]
PyFloatVal(c) == [k |-> "float", c |-> c]
PyIntVal(c) == [k |-> "int", c |-> c]
ValueError == [k |-> "ValueError", c |-> 0]

\* Python's == on two numbers: numeric, int and float compare by value,
\* NaN is unequal to everything, itself included.
PyEq(a, b) ==
    /\ a.k \in {"float", "int"}
    /\ b.k \in {"float", "int"}
    /\ a.c = b.c

(***************************************************************************)
(* Numeric literals as they appear in a document.  form is the shape of    *)
(* the text, c the amount in cents:                                        *)
(*   "digits"  1899        "grouped" 1,899       "decimal" 493.55          *)
(*   "neg"     -5          "nan"     nan         "comma"   ,               *)
(***************************************************************************)
NoLit == [form |-> "none", c |-> 0]
Lit(form, c) == [form |-> form, c |-> c]

\* float(text): the text as it stands (stripped = FALSE) or after
\* .replace(',', '') (stripped = TRUE).
PyFloat(lit, stripped) ==
    CASE lit.form \in {"digits", "decimal"} -> PyFloatVal(lit.c)
      [] lit.form = "grouped" -> IF stripped THEN PyFloatVal(lit.c) ELSE ValueError
      [] lit.form = "neg" -> PyFloatVal(0 - lit.c)
      [] lit.form = "nan" -> NaN
      [] OTHER -> ValueError

\* the text matches [0-9,]+ in full
MatchesFareRe(lit) == lit.form \in {"digits", "grouped", "comma"}
\* the longest prefix of the text that matches [0-9,]+, NoLit when the text
\* does not begin with a digit or a comma: of 1999.50 it is 1999
FarePrefix(lit) ==
    CASE lit.form \in {"digits", "grouped", "comma"} -> lit
      [] lit.form = "decimal" -> Lit("digits", (lit.c \div 100) * 100)
      [] OTHER -> NoLit
\* the text matches [0-9,]+\.?[0-9]* in full
MatchesTaxRe(lit) == lit.form \in {"digits", "grouped", "decimal", "comma"}

(***************************************************************************)
(* Documents.  A document is a sequence of fragments in document order:    *)
(*  tag "script": <script type="application/ld+json">, kind                *)
(*      "badjson" (not JSON), "array" (a JSON array), "offer"              *)
(*      ({"@type": "Offer", "price": "<lit>"});                            *)
(*  tag "disc": <div class="c544_disclaimer">, kind "list" (its items are  *)
(*      <li class="c544_disclaimer_list_item"><span> of a                  *)
(*      <ul class="c544_disclaimer_list">) or "plain" (the item texts are  *)
(*      plain paragraphs of the div);                                      *)
(*  tag "elem": an element holding "$<lit> PP / USD", kind "classed" (its  *)
(*      class matches price|cost|fare), "split" (classed, with markup      *)
(*      between the amount and the qualifier), "unclassed";                *)
(*  tag "field": the text <kind>: <lit>, kind "priceFrom" or               *)
(*      "taxesAndFees".                                                    *)
(* An item of a disclaimer is [label, lit]: "+ Taxes, fees and port        *)
(* expenses $<lit> USD" when label, "$<lit> onboard credit" otherwise,     *)
(* and a text without amount when lit = NoLit.                             *)
(***************************************************************************)
Item(label, lit) == [label |-> label, lit |-> lit]
Part(tag, kind, lit, items) == [tag |-> tag, kind |-> kind, lit |-> lit, items |-> items]

ScriptParts ==
    { Part("script", "badjson", NoLit, <<>>),
      Part("script", "array", NoLit, <<>>),
      Part("script", "offer", Lit("digits", 189900), <<>>),
      Part("script", "offer", Lit("grouped", 199900), <<>>),
      Part("script", "offer", Lit("neg", 500), <<>>),
      Part("script", "offer", Lit("nan", 0), <<>>) }

TaxLine == Item(TRUE, Lit("decimal", 49355))
CreditLine == Item(FALSE, Lit("digits", 5000))
TextLine == Item(FALSE, NoLit)
CommaLine == Item(FALSE, Lit("comma", 0))
CommaTaxLine == Item(TRUE, Lit("comma", 0))

DiscParts ==
    { Part("disc", "list", NoLit, <<TaxLine>>),
      Part("disc", "plain", NoLit, <<TaxLine>>),
      Part("disc", "list", NoLit, <<CreditLine, TaxLine>>),
      Part("disc", "list", NoLit, <<TextLine>>),
      Part("disc", "list", NoLit, <<CommaLine, TaxLine>>),
      Part("disc", "list", NoLit, <<CommaTaxLine>>) }

ElemParts ==
    { Part("elem", "classed", Lit("grouped", 189900), <<>>),
      Part("elem", "split", Lit("grouped", 199900), <<>>),
      Part("elem", "unclassed", Lit("digits", 199900), <<>>),
      Part("elem", "classed", Lit("comma", 0), <<>>) }

FieldParts ==
    { Part("field", "priceFrom", Lit("digits", 199900), <<>>),
      Part("field", "priceFrom", Lit("decimal", 199950), <<>>),
      Part("field", "taxesAndFees", Lit("decimal", 5000), <<>>) }

Parts == ScriptParts \cup DiscParts \cup ElemParts \cup FieldParts

Docs == UNION { [1..n -> Parts] : n \in 0..MaxParts }

NoHtml == <<Part("none", "none", NoLit, <<>>)>>

\* the fragments of a document with the given tag, in document order
RECURSIVE Select(_, _)
Select(doc, tag) ==
    IF doc = <<>> THEN <<>>
    ELSE IF Head(doc).tag = tag THEN <<Head(doc)>> \o Select(Tail(doc), tag)
    ELSE Select(Tail(doc), tag)

(***************************************************************************)
(* parse_price.  The local variables base_price and taxes are one pair for *)
(* the whole function: a strategy hands them on as a record                *)
(* [done, base_price, taxes], done = TRUE when it returned the pair.       *)
(***************************************************************************)
Locals(done, b, t) == [done |-> done, base_price |-> b, taxes |-> t]

\* lines 98-109: the taxes of strategy 1, the first list item of the first
\* disclaimer div whose span holds a $ amount; None when there is none.
RECURSIVE S1ItemTax(_)
S1ItemTax(items) ==
    IF items = <<>> THEN None
    ELSE IF MatchesTaxRe(Head(items).lit) THEN PyFloat(Head(items).lit, TRUE)
    ELSE S1ItemTax(Tail(items))

S1FindTax(doc) ==
    LET divs == Select(doc, "disc") IN
    IF divs = <<>> THEN None
    ELSE IF Head(divs).kind # "list" THEN None
    ELSE S1ItemTax(Head(divs).items)

\* lines 90-114: the loop over the JSON-LD scripts.
RECURSIVE S1Scripts(_, _, _)
S1Scripts(scripts, doc, b) ==
    IF scripts = <<>> THEN Locals(FALSE, b, None)
    ELSE LET s == Head(scripts) IN
         CASE s.kind = "badjson" -> S1Scripts(Tail(scripts), doc, b)
           [] s.kind = "array" -> Locals(FALSE, b, None)
           [] OTHER ->
                LET price == PyFloat(s.lit, FALSE) IN
                IF price = ValueError THEN S1Scripts(Tail(scripts), doc, b)
                ELSE LET t == S1FindTax(doc) IN
                     IF t = ValueError THEN S1Scripts(Tail(scripts), doc, price)
                     ELSE IF t # None THEN Locals(TRUE, price, t)
                     ELSE Locals(FALSE, price, None)

\* lines 85-116
Strategy1(doc) == S1Scripts(Select(doc, "script"), doc, None)

\* lines 127-134: the first price-like element with "$N PP / USD"
RECURSIVE S2ElemBase(_)
S2ElemBase(elems) ==
    IF elems = <<>> THEN None
    ELSE IF Head(elems).kind \in {"classed", "split"} /\ MatchesFareRe(Head(elems).lit)
         THEN PyFloat(Head(elems).lit, TRUE)
    ELSE S2ElemBase(Tail(elems))

S2FindBase(doc) == S2ElemBase(Select(doc, "elem"))

\* lines 137-143: the labelled amount in the text of the first disclaimer div
RECURSIVE LabelledTax(_)
LabelledTax(items) ==
    IF items = <<>> THEN None
    ELSE IF Head(items).label /\ MatchesTaxRe(Head(items).lit)
         THEN PyFloat(Head(items).lit, TRUE)
    ELSE LabelledTax(Tail(items))

S2FindTax(doc) ==
    LET divs == Select(doc, "disc") IN
    IF divs = <<>> THEN None ELSE LabelledTax(Head(divs).items)

\* a variant of Strategy2 that keeps the base price strategy 1 left behind
Strategy2Carry(doc, loc) ==
    LET b0 == S2FindBase(doc)
        b == IF b0 = None THEN loc.base_price ELSE b0
        t == S2FindTax(doc)
    IN IF ValueError \in {b0, t} THEN Locals(FALSE, None, None)
       ELSE Locals(b # None /\ t # None, b, t)

\* lines 119-149: base_price and taxes start from None; a ValueError of
\* float() ends the strategy
Strategy2(doc, loc) ==
    LET b == S2FindBase(doc) IN
    IF b = ValueError THEN Locals(FALSE, None, None)
    ELSE LET t == S2FindTax(doc) IN
         IF t = ValueError THEN Locals(FALSE, b, None)
         ELSE Locals(b # None /\ t # None, b, t)

\* lines 158-168: the fare patterns over the whole text, in order; each
\* pattern takes its leftmost match.  The first two patterns go on after
\* the group (PP / USD, the closing quote), so the group is the whole
\* amount; the third (line 161) ends with the group, which is then the
\* digits and commas the value begins with.
RECURSIVE FirstFare(_, _)
FirstFare(doc, pattern) ==
    IF doc = <<>> THEN None
    ELSE LET p == Head(doc)
             group == CASE pattern = 1 ->
                             IF /\ p.tag = "elem"
                                /\ p.kind \in {"classed", "unclassed"}
                                /\ MatchesFareRe(p.lit)
                             THEN p.lit ELSE NoLit
                        [] pattern = 2 ->
                             IF p.tag = "script" /\ p.kind = "offer" /\ MatchesFareRe(p.lit)
                             THEN p.lit ELSE NoLit
                        [] OTHER ->
                             IF p.tag = "field" /\ p.kind = "priceFrom"
                             THEN FarePrefix(p.lit) ELSE NoLit
         IN IF group # NoLit THEN PyFloat(group, TRUE) ELSE FirstFare(Tail(doc), pattern)

S3FindBase(doc) ==
    IF FirstFare(doc, 1) # None THEN FirstFare(doc, 1)
    ELSE IF FirstFare(doc, 2) # None THEN FirstFare(doc, 2)
    ELSE FirstFare(doc, 3)

\* lines 172-182: the tax patterns over the whole text.  Every match of the
\* second pattern (with the leading +) contains a match of the first.
RECURSIVE FirstTax(_, _)
FirstTax(doc, pattern) ==
    IF doc = <<>> THEN None
    ELSE LET p == Head(doc)
             t == CASE pattern \in {1, 2} ->
                         IF p.tag = "disc" THEN LabelledTax(p.items) ELSE None
                    [] OTHER ->
                         IF p.tag = "field" /\ p.kind = "taxesAndFees" /\ MatchesTaxRe(p.lit)
                         THEN PyFloat(p.lit, TRUE) ELSE None
         IN IF t # None THEN t ELSE FirstTax(Tail(doc), pattern)

S3FindTax(doc) ==
    IF FirstTax(doc, 1) # None THEN FirstTax(doc, 1)
    ELSE IF FirstTax(doc, 2) # None THEN FirstTax(doc, 2)
    ELSE FirstTax(doc, 3)

\* lines 152-188: base_price and taxes start from None; a ValueError of
\* float() ends the strategy
Strategy3(doc, loc) ==
    LET b == S3FindBase(doc) IN
    IF b = ValueError THEN Locals(FALSE, None, None)
    ELSE LET t == S3FindTax(doc) IN
         IF t = ValueError THEN Locals(FALSE, b, None)
         ELSE Locals(b # None /\ t # None, b, t)

\* lines 75-191: the pair returned, or done = FALSE when ValueError is raised
parse_price(doc) ==
    LET r1 == Strategy1(doc) IN
    IF r1.done THEN r1
    ELSE LET r2 == Strategy2(doc, r1) IN
         IF r2.done THEN r2 ELSE Strategy3(doc, r2)

(***************************************************************************)
(* The snapshot file is [kind, elems, readable].  readable is whether      *)
(* open(path, 'r') is permitted; it is a property of the file and not of   *)
(* its content, and a write does not change it.  The content is:           *)
(*   "absent" no file, "garbage" text                                      *)
(*   that is not JSON, "truncated" what a failed write leaves behind,      *)
(*   "undecodable" bytes that are not text, "null", "number" (a bare       *)
(*   number), "object", and "array" with the JSON numbers elems.           *)
(* A JSON number is [lit, c]: lit "float" (1899.0), "int" (1899), "NaN".   *)
(***************************************************************************)
File(kind, elems) == [kind |-> kind, elems |-> elems, readable |-> TRUE]
\* a file the process may write and may not read (mode 0200)
WriteOnly(kind, elems) == [kind |-> kind, elems |-> elems, readable |-> FALSE]
JNum(lit, c) == [lit |-> lit, c |-> c]
Absent == File("absent", <<>>)

\* a variant of JsonDumpFloat that writes the amount as a whole number
JsonDumpFloatInt(v) == IF v.k = "nan" THEN JNum("NaN", 0) ELSE JNum("int", (v.c \div 100) * 100)

\* json.dump of one float (line 212): float.__repr__, NaN for a NaN
JsonDumpFloat(v) == IF v.k = "nan" THEN JNum("NaN", 0) ELSE JNum("float", v.c)

\* json.load of one number
JsonLoadNum(j) ==
    CASE j.lit = "float" -> PyFloatVal(j.c)
      [] j.lit = "int" -> PyIntVal(j.c)
      [] OTHER -> NaN

\* what load_last hands back: [t, elems, raised]; t is the type of the
\* value ("None", "num", "dict", "list"), elems the elements of a list
Loaded(t, elems, raised) == [t |-> t, elems |-> elems, raised |-> raised]

\* lines 194-203
load_last(f) ==
    CASE f.kind = "absent" -> Loaded("None", <<>>, "")
      [] ~f.readable -> Loaded("None", <<>>, "")
      [] f.kind \in {"garbage", "truncated"} -> Loaded("None", <<>>, "")
      [] f.kind = "undecodable" -> Loaded("None", <<>>, "UnicodeDecodeError")
      [] f.kind = "null" -> Loaded("None", <<>>, "")
      [] f.kind = "number" -> Loaded("num", <<>>, "")
      [] f.kind = "object" -> Loaded("dict", <<>>, "")
      [] OTHER -> Loaded("list", [i \in 1..Len(f.elems) |-> JsonLoadNum(f.elems[i])], "")

\* lines 206-214; io is what the file system does: "ok", "open_fails"
\* (makedirs or open raises), "write_fails" (the write raises after open
\* truncated the file).  IOError is swallowed in every case.  open(path,
\* 'w') creates a missing file readable and keeps the mode of a file that
\* exists.
save_last(f, data, io) ==
    LET r == IF f.kind = "absent" THEN TRUE ELSE f.readable IN
    CASE io = "ok" ->
           [kind |-> "array",
            elems |-> [i \in 1..Len(data) |-> JsonDumpFloat(data[i])],
            readable |-> r]
      [] io = "open_fails" -> f
      [] OTHER -> [kind |-> "truncated", elems |-> <<>>, readable |-> r]

\* line 252, (base, taxes) != tuple(last): "yes", "no", or the exception
has_changed(b, t, last) ==
    CASE last.t = "None" -> "yes"
      [] last.t = "num" -> "TypeError"
      [] last.t = "dict" -> "yes"
      [] OTHER ->
           IF /\ Len(last.elems) = 2
              /\ PyEq(b, last.elems[1])
              /\ PyEq(t, last.elems[2])
           THEN "no" ELSE "yes"

(***************************************************************************)
(* The network.                                                            *)
(***************************************************************************)
Response(status, body) == [status |-> status, body |-> body]

\* lines 37-72: the text, or the Exception raised for a RequestException
fetch_html(resp) ==
    IF resp.status = "ok"
    THEN [raised |-> "", text |-> resp.body]
    ELSE [raised |-> "Exception", text |-> NoHtml]

\* lines 217-220 without r.raise_for_status()
send_telegram_unchecked(status) == IF status = "connection_error" THEN "ConnectionError" ELSE ""

\* lines 217-220: the exception raised, "" when the message was accepted
send_telegram(status) ==
    CASE status = "ok" -> ""
      [] status = "http_error" -> "HTTPError"
      [] OTHER -> "ConnectionError"

\* line 262, except Exception: where an exception raised in the try leads
Catch(exc) ==
    IF exc \in {"Exception", "ValueError", "UnicodeDecodeError", "TypeError",
                "HTTPError", "ConnectionError"}
    THEN "except" ELSE "exited"

(***************************************************************************)
(* run(): the state machine.                                               *)
(***************************************************************************)
\* lines 227-228: the credentials are literals of the source
bot_token == "7915288038:AAG"
chat_id == "-1002852664251"
Truthy(str) == str # ""

\* The text of an environment variable is [form, n, len]: form is the shape
\* of the text, n the number its digits spell and len how many digits are
\* written (leading zeros count):
\*   "unset"   the variable is not set
\*   "digits"  2, 0, 00012, 1_0     "plus"    +2        "minus"  -1
\*   "padded"  digits within white space (' 2 ', '2\n')
\*   "decimal" 1.5, 1e3             "word"    abc, 0x10, - 1
\*   "empty"   the empty text
Text(form, n, len) == [form |-> form, n |-> n, len |-> len]
Unset == Text("unset", 0, 0)
\* os.getenv(name, default), the variable holding the text value
getenv(value, default) == IF value = Unset THEN default ELSE value

\* the most digits int() converts (sys.int_info.default_max_str_digits)
MaxStrDigits == 4300

\* int(text), line 229: [raised, n].  int() strips white space, takes one
\* sign and decimal digits, and raises ValueError for anything else and for
\* more than MaxStrDigits digits.
PyInt(text) ==
    CASE text.form \notin {"digits", "plus", "padded", "minus"} ->
           [raised |-> "ValueError", n |-> 0]
      [] text.len > MaxStrDigits -> [raised |-> "ValueError", n |-> 0]
      [] text.form = "minus" -> [raised |-> "", n |-> 0 - text.n]
      [] OTHER -> [raised |-> "", n |-> text.n]

\* the least number of minutes whose seconds do not fit the C time type of
\* time.sleep (64-bit nanoseconds, 9223372036 s)
SleepLimit == 153722868

\* time.sleep(minutes * 60), line 265, called when the monotonic clock reads
\* clock seconds: the exception raised, "" when it sleeps and returns.
\* The seconds are converted to the time type first (OverflowError on
\* either side), then tested for their sign (ValueError).
\* Below SleepLimit the deadline clock + minutes * 60 has to fit the time
\* type as well, or the operating system refuses it (OSError):
\* clock > 16 + 60 * (SleepLimit - 1 - minutes), 16 being the seconds
\* between (SleepLimit - 1) * 60 and the end of the type.
time_sleep(minutes, clock) ==
    IF minutes >= SleepLimit \/ minutes <= 0 - SleepLimit THEN "OverflowError"
    ELSE IF minutes < 0 THEN "ValueError"
    ELSE IF SleepLimit - 1 - minutes <= (clock - 17) \div 60 THEN "OSError"
    ELSE ""

\* readings of the monotonic clock, in seconds, when the sleep begins
Clocks == {10, 100, 100000}

\* the texts CHECK_INTERVAL_MIN takes
IntervalTexts ==
    { Unset,
      Text("padded", 2, 1),
      Text("minus", 1, 1),
      Text("minus", 200000000, 9),
      Text("digits", 200000000, 9),
      Text("digits", 153722867, 9),
      Text("digits", 1, 4301),
      Text("word", 0, 0),
      Text("decimal", 15, 2),
      Text("empty", 0, 0) }

EvNone ==
    [fetch |-> "none", parse |-> "none", same |-> FALSE,
     changed |-> "none", notify |-> "none", save |-> "none"]
PrevNone == [notifyFailed |-> FALSE, allOk |-> FALSE]

\* a cycle in which the fetch and the extraction succeeded and neither the
\* notification nor the write failed
AllOk(e) ==
    /\ e.fetch = "ok"
    /\ e.parse = "ok"
    /\ e.notify # "fail"
    /\ e.save # "fail"

InitStores ==
    { Absent,
      WriteOnly("garbage", <<>>),
      WriteOnly("array", <<JNum("float", 189900), JNum("float", 49355)>>),
      File("garbage", <<>>),
      File("undecodable", <<>>),
      File("null", <<>>),
      File("number", <<>>),
      File("object", <<>>),
      File("array", <<JNum("float", 189900)>>),
      File("array", <<JNum("int", 189900), JNum("float", 49355)>>) }

\* run() reads the fetched document through parse_price alone: one document
\* for each outcome of parse_price stands for all the documents with that
\* outcome.
Outcome(doc) ==
    LET r == parse_price(doc) IN
    IF r.done THEN <<r.base_price, r.taxes>> ELSE <<ValueError, ValueError>>

Pages == { CHOOSE d \in Docs : Outcome(d) = o : o \in { Outcome(d) : d \in Docs } }

\* what the server answers: a page, an error status with a page as its body,
\* or nothing
Responses ==
    { Response("ok", d) : d \in Pages }
        \cup { Response("http_error", d) : d \in Pages }
        \cup { Response("timeout", NoHtml), Response("retries_exhausted", NoHtml) }

TelegramStatuses == {"ok", "http_error", "connection_error"}
IoOutcomes == {"ok", "open_fails", "write_fails"}

Init ==
    /\ pc = "start"
    /\ env \in [TELEGRAM_BOT_TOKEN : BOOLEAN, TELEGRAM_CHAT_ID : BOOLEAN,
                CHECK_INTERVAL_MIN : IntervalTexts]
    /\ interval = 0
    /\ html = NoHtml
    /\ base = None
    /\ taxes = None
    /\ store \in InitStores
    /\ store0 = store
    /\ ev = EvNone
    /\ prev = PrevNone

\* lines 225-237: the environment is not consulted for the credentials;
\* a ValueError of int() at line 229 is caught by nothing and ends run()
Startup ==
    /\ pc = "start"
    /\ LET i == PyInt(getenv(env.CHECK_INTERVAL_MIN, Text("digits", 1, 1))) IN
       IF i.raised # ""
       THEN pc' = "exited" /\ interval' = interval
       ELSE /\ interval' = i.n
            /\ pc' = IF ~(Truthy(bot_token) /\ Truthy(chat_id)) THEN "exited" ELSE "fetch"
    /\ UNCHANGED <<env, html, base, taxes, store, store0, ev, prev>>

\* line 241
Fetch ==
    /\ pc = "fetch"
    /\ \E resp \in Responses :
         LET r == fetch_html(resp) IN
         /\ ev' = [ev EXCEPT !.fetch = IF resp.status = "ok" THEN "ok" ELSE "fail"]
         /\ IF r.raised # ""
            THEN pc' = Catch(r.raised) /\ html' = html
            ELSE pc' = "parse" /\ html' = r.text
    /\ UNCHANGED <<env, interval, base, taxes, store, store0, prev>>

\* line 242
ParsePrice ==
    /\ pc = "parse"
    /\ LET r == parse_price(html) IN
       IF r.done
       THEN /\ pc' = "load"
            /\ base' = r.base_price
            /\ taxes' = r.taxes
            /\ ev' = [ev EXCEPT !.parse = "ok",
                                !.same = (r.base_price = base /\ r.taxes = taxes)]
       ELSE /\ pc' = Catch("ValueError")
            /\ ev' = [ev EXCEPT !.parse = "fail"]
            /\ UNCHANGED <<base, taxes>>
    /\ UNCHANGED <<env, interval, html, store, store0, prev>>

\* lines 251-252
CheckChanged ==
    /\ pc = "load"
    /\ LET last == load_last(store) IN
       IF last.raised # ""
       THEN pc' = Catch(last.raised) /\ ev' = [ev EXCEPT !.changed = "raised"]
       ELSE LET c == has_changed(base, taxes, last) IN
            CASE c = "yes" -> pc' = "notify" /\ ev' = [ev EXCEPT !.changed = "yes"]
              [] c = "no" -> pc' = "sleep" /\ ev' = [ev EXCEPT !.changed = "no"]
              [] OTHER -> pc' = Catch(c) /\ ev' = [ev EXCEPT !.changed = "raised"]
    /\ UNCHANGED <<env, interval, html, base, taxes, store, store0, prev>>

\* lines 254-259
Notify ==
    /\ pc = "notify"
    /\ \E status \in TelegramStatuses :
         LET exc == send_telegram(status) IN
         /\ ev' = [ev EXCEPT !.notify = IF status = "ok" THEN "ok" ELSE "fail"]
         /\ pc' = IF exc = "" THEN "save" ELSE Catch(exc)
    /\ UNCHANGED <<env, interval, html, base, taxes, store, store0, prev>>

\* line 260
Save ==
    /\ pc = "save"
    /\ \E io \in IoOutcomes :
         /\ store' = save_last(store, <<base, taxes>>, io)
         /\ ev' = [ev EXCEPT !.save = IF io = "ok" THEN "ok" ELSE "fail"]
    /\ pc' = "sleep"
    /\ UNCHANGED <<env, interval, html, base, taxes, store0, prev>>

\* lines 262-263
Except ==
    /\ pc = "except"
    /\ pc' = "sleep"
    /\ UNCHANGED <<env, interval, html, base, taxes, store, store0, ev, prev>>

\* line 265 and the next turn of the while loop; the sleep is outside the
\* try, so an exception of time.sleep ends run()
Sleep ==
    /\ pc = "sleep"
    /\ \E clock \in Clocks :
         IF time_sleep(interval, clock) # ""
         THEN /\ pc' = "exited"
              /\ UNCHANGED <<store0, ev, prev>>
         ELSE /\ pc' = "fetch"
              /\ prev' = [notifyFailed |-> ev.notify = "fail", allOk |-> AllOk(ev)]
              /\ ev' = EvNone
              /\ store0' = store
    /\ UNCHANGED <<env, interval, html, base, taxes, store>>

Next ==
    \/ Startup
    \/ Fetch
    \/ ParsePrice
    \/ CheckChanged
    \/ Notify
    \/ Save
    \/ Except
    \/ Sleep

Spec == Init /\ [][Next]_vars

(***************************************************************************)
(* parse_price on its own, one strategy per step.                          *)
(***************************************************************************)
InitParse ==
    /\ pc = "s1"
    /\ env = [TELEGRAM_BOT_TOKEN |-> TRUE, TELEGRAM_CHAT_ID |-> TRUE,
              CHECK_INTERVAL_MIN |-> Unset]
    /\ interval = 1
    /\ html \in Docs
    /\ base = None
    /\ taxes = None
    /\ store = Absent
    /\ store0 = Absent
    /\ ev = EvNone
    /\ prev = PrevNone

ParseStep(from, strategy, returned, fallthrough) ==
    /\ pc = from
    /\ IF strategy.done
       THEN pc' = returned /\ base' = strategy.base_price /\ taxes' = strategy.taxes
       ELSE pc' = fallthrough /\ base' = strategy.base_price /\ taxes' = strategy.taxes
    /\ UNCHANGED <<env, interval, html, store, store0, ev, prev>>

ParseS1 == ParseStep("s1", Strategy1(html), "ret1", "s2")
ParseS2 == ParseStep("s2", Strategy2(html, Locals(FALSE, base, taxes)), "ret2", "s3")
ParseS3 == ParseStep("s3", Strategy3(html, Locals(FALSE, base, taxes)), "ret3", "raised")

NextParse == ParseS1 \/ ParseS2 \/ ParseS3

SpecParse == InitParse /\ [][NextParse]_vars

(***************************************************************************)
(* Properties.                                                             *)
(***************************************************************************)
LoopPcs == {"fetch", "parse", "load", "notify", "save", "except", "sleep"}

\* something failed in the current cycle
Failed(e) ==
    \/ e.fetch = "fail"
    \/ e.parse = "fail"
    \/ e.changed = "raised"
    \/ e.notify = "fail"
    \/ e.save = "fail"

\* the notifier was called in the current cycle
Notified(e) == e.notify # "none"

\* the file can be read and holds a pair equal to (b, t)
StoredPairEquals(f, b, t) ==
    /\ f.readable
    /\ f.kind = "array"
    /\ Len(f.elems) = 2
    /\ PyEq(JsonLoadNum(f.elems[1]), b)
    /\ PyEq(JsonLoadNum(f.elems[2]), t)

\* the file holds the two numbers b and t, a NaN counting as itself
HoldsPair(f, b, t) ==
    /\ f.kind = "array"
    /\ Len(f.elems) = 2
    /\ \A i \in 1..2 :
         LET v == JsonLoadNum(f.elems[i])
             w == <<b, t>>[i]
         IN PyEq(v, w) \/ (v.k = "nan" /\ w.k = "nan")

\* the file exists and is not a JSON array of two numbers
Malformed(f) ==
    \/ f.kind \in {"garbage", "truncated", "undecodable", "null", "number", "object"}
    \/ f.kind = "array" /\ Len(f.elems) # 2

\* a float that is finite and not negative
ValidAmount(v) == v.k = "float" /\ v.c >= 0

\* C1: once a cycle has begun the process is in the loop and never exits;
\* whatever fails in the cycle (the fetch, the extraction, the load of the
\* snapshot, the notification, the write), it is at the handler of the
\* cycle boundary or at the sleep, and the sleep leads to the next cycle.
C1_FailureContained ==
    /\ ev.fetch # "none" => pc \in LoopPcs
    /\ Failed(ev) => pc \in {"except", "sleep"}

\* C2: in a cycle whose fetch fails, fetch_html raises, no notification is
\* sent, the snapshot file is not written, and the process stays alive: it
\* goes on to the handler and the sleep.
C2_FetchFailure ==
    ev.fetch = "fail" =>
        /\ pc \in {"except", "sleep"}
        /\ ev.parse = "none"
        /\ ~Notified(ev)
        /\ ev.save = "none"
        /\ store = store0

\* C3: a cycle whose fetch and extraction succeeded calls the notifier if and
\* only if the file held no pair equal to the extracted one, and writes
\* nothing when it held one.
C3_NotifiedIffChanged ==
    pc = "sleep" /\ ev.parse = "ok" =>
        /\ Notified(ev) <=> ~StoredPairEquals(store0, base, taxes)
        /\ StoredPairEquals(store0, base, taxes) => ev.save = "none" /\ store = store0

\* C4 as claimed: a cycle that finds the extracted pair different from the
\* snapshot sends the notification and leaves the new pair in the file.
C4_Original ==
    pc = "sleep" /\ ev.changed = "yes" =>
        /\ ev.notify = "ok"
        /\ load_last(store) = Loaded("list", <<base, taxes>>, "")

\* C4 as amended: when the notification and the write both succeed, the file
\* holds the new pair at the end of the cycle and, if the file can be read,
\* load_last gives back the same two floats; when the notification fails
\* the file is left as it was.
C4_SavedRoundTrip ==
    /\ pc = "sleep" /\ ev.changed = "yes" /\ ev.notify = "ok" /\ ev.save = "ok" =>
        /\ store.kind = "array"
        /\ Len(store.elems) = 2
        /\ \A i \in 1..2 : JsonLoadNum(store.elems[i]) = <<base, taxes>>[i]
        /\ store.readable => load_last(store) = Loaded("list", <<base, taxes>>, "")
    /\ pc = "sleep" /\ ev.changed = "yes" /\ ev.notify # "ok" => store = store0

C4_Witness ==
    /\ pc = "sleep"
    /\ ev.changed = "yes" /\ ev.notify = "ok" /\ ev.save = "ok"
    /\ store0.kind = "array" /\ Len(store0.elems) = 2
    /\ store.readable
    /\ store # store0

\* C5: a file that is not a JSON array of two numbers is treated as no file:
\* a cycle that extracts a pair finds a change, calls the notifier, and
\* saves the pair when the notification and the write succeed.
C5_MalformedAsAbsent ==
    pc = "sleep" /\ ev.parse = "ok" /\ Malformed(store0) =>
        /\ ev.changed = "yes"
        /\ Notified(ev)
        /\ ev.notify = "ok" /\ ev.save = "ok" => HoldsPair(store, base, taxes)

\* C7: every pair parse_price returns, and every number written to the
\* file, is finite and not negative.
C7_ValidSnapshot ==
    /\ ev.parse = "ok" => ValidAmount(base) /\ ValidAmount(taxes)
    /\ ev.save = "ok" =>
         \A i \in 1..Len(store.elems) : store.elems[i].lit = "float" /\ store.elems[i].c >= 0

\* C8: a process started with TELEGRAM_BOT_TOKEN or TELEGRAM_CHAT_ID unset
\* exits at startup: it never fetches, notifies or writes.
C8_MissingCredentialsExit ==
    ~(env.TELEGRAM_BOT_TOKEN /\ env.TELEGRAM_CHAT_ID) =>
        /\ pc \in {"start", "exited"}
        /\ ev = EvNone
        /\ store = store0

\* C9: the file is written only after the notifier succeeded; a failed
\* notification leaves the file as it was, and the next cycle that extracts
\* the same pair finds the change again and calls the notifier again.
C9_NotifyBeforeSave ==
    /\ pc = "save" \/ ev.save # "none" => ev.notify = "ok"
    /\ ev.notify = "fail" => ev.save = "none" /\ store = store0 /\ pc # "save"
    /\ prev.notifyFailed /\ ev.parse = "ok" /\ ev.same /\ pc \notin {"load"} =>
         ev.changed = "yes" /\ (pc = "notify" \/ Notified(ev))

C9_Witness ==
    /\ prev.notifyFailed
    /\ ev.same
    /\ ev.notify = "ok"
    /\ pc = "save"

\* C10: once every step of every cycle succeeds and the page keeps yielding
\* the pair P, the file holds P at the end of the cycle, and a later cycle
\* that again extracts P neither notifies nor writes.
C10_Quiescence ==
    /\ pc = "sleep" /\ AllOk(ev) => HoldsPair(store, base, taxes)
    /\ pc = "sleep" /\ prev.allOk /\ AllOk(ev) /\ ev.same =>
         ~Notified(ev) /\ ev.save = "none"

(***************************************************************************)
(* Properties of parse_price (SpecParse).                                  *)
(***************************************************************************)
Found(v) == v \notin {None, ValueError}

\* the lowest-numbered strategy that finds both figures by itself, 0 if none
FirstFull(doc) ==
    IF Strategy1(doc).done THEN 1
    ELSE IF Found(S2FindBase(doc)) /\ Found(S2FindTax(doc)) THEN 2
    ELSE IF Found(S3FindBase(doc)) /\ Found(S3FindTax(doc)) THEN 3
    ELSE 0

\* C6: parse_price returns the pair of the lowest-numbered strategy that
\* finds both figures by itself, and raises exactly when none does; a base
\* fare of strategy 1 is never returned with the taxes of a later strategy.
C6_FirstFullStrategyWins ==
    /\ pc = "ret1" => FirstFull(html) = 1
    /\ pc = "ret2" =>
         FirstFull(html) = 2 /\ base = S2FindBase(html) /\ taxes = S2FindTax(html)
    /\ pc = "ret3" =>
         FirstFull(html) = 3 /\ base = S3FindBase(html) /\ taxes = S3FindTax(html)
    /\ pc = "raised" => FirstFull(html) = 0
    /\ pc \in {"ret1", "ret2", "ret3"} => Found(base) /\ Found(taxes)

C6_Witness ==
    /\ pc = "ret2"
    /\ Found(Strategy1(html).base_price)
    /\ Strategy1(html).base_price # base

====
